---- MODULE Spec2Model ----
(***************************************************************************)
(* TalentScan (src/TalentScan/app.py): a Flask application that accepts a  *)
(* resume upload, extracts its text, scores it against a skill list and    *)
(* stores one row per accepted submission in an SQLite table.              *)
(*                                                                         *)
(* Text is modelled as a sequence of one-character strings, so that        *)
(* lower(), strip(), substring containment and the regular expressions are *)
(* computed character by character as Python computes them.  Scores are    *)
(* kept in tenths of a point (71.7 is 717).                                *)
(***************************************************************************)
EXTENDS Integers, Sequences, FiniteSets, TLC

(***************************************************************************)
(* Bounds of the model.                                                    *)
(***************************************************************************)
MaxFrags == 3        \* fragments concatenated into a resume text
MaxSkills == 2       \* entries of a required-skill list
MaxJdFrags == 2      \* fragments concatenated into a job description
NumReq == 2          \* POST /submit requests in flight
MaxClock == 1        \* seconds the wall clock may advance

(***************************************************************************)
(* Characters and Python's str helpers.                                    *)
(***************************************************************************)
UpperChars == <<"A","B","C","D","E","F","G","H","I","J","K","L","M","N","O","P","Q","R","S","T","U","V","W","X","Y","Z">>
LowerChars == <<"a","b","c","d","e","f","g","h","i","j","k","l","m","n","o","p","q","r","s","t","u","v","w","x","y","z">>
DigitChars == <<"0","1","2","3","4","5","6","7","8","9">>
SpaceChars == {" ", "\t", "\n", "\r"}

Range(s) == {s[i] : i \in DOMAIN s}

IsUpper(c) == c \in Range(UpperChars)
IsAlpha(c) == c \in Range(UpperChars) \cup Range(LowerChars)
IsDigit(c) == c \in Range(DigitChars)
IsSpace(c) == c \in SpaceChars

\* str.lower() on one character
LowerChar(c) == IF IsUpper(c) THEN LowerChars[CHOOSE i \in 1..26 : UpperChars[i] = c] ELSE c

\* str.lower()
Lower(s) == [i \in 1..Len(s) |-> LowerChar(s[i])]

DigitVal(c) == (CHOOSE i \in 1..10 : DigitChars[i] = c) - 1

\* int(token) for a string of decimal digits
RECURSIVE ToInt(_)
ToInt(s) == IF s = <<>> THEN 0 ELSE 10 * ToInt(SubSeq(s, 1, Len(s) - 1)) + DigitVal(s[Len(s)])

\* str.strip(): drop leading and trailing whitespace
RECURSIVE LStrip(_)
LStrip(s) == IF s # <<>> /\ IsSpace(s[1]) THEN LStrip(Tail(s)) ELSE s
RECURSIVE RStrip(_)
RStrip(s) == IF s # <<>> /\ IsSpace(s[Len(s)]) THEN RStrip(SubSeq(s, 1, Len(s) - 1)) ELSE s
Strip(s) == RStrip(LStrip(s))

\* Python's  sub in s  for strings
Contains(sub, s) == \E i \in 0..(Len(s) - Len(sub)) : SubSeq(s, i + 1, i + Len(sub)) = sub

\* concatenation of a sequence of strings
RECURSIVE Concat(_)
Concat(ss) == IF ss = <<>> THEN <<>> ELSE Head(ss) \o Concat(Tail(ss))

\* sep.join(parts)
RECURSIVE Join(_, _)
Join(sep, parts) ==
    IF parts = <<>> THEN <<>>
    ELSE IF Len(parts) = 1 THEN parts[1]
    ELSE parts[1] \o sep \o Join(sep, Tail(parts))

\* all sequences over S of length at most n
SeqsUpTo(S, n) == UNION {[1..k -> S] : k \in 0..n}

Min(a, b) == IF a <= b THEN a ELSE b

RECURSIVE MaxOf(_)
MaxOf(ns) == IF Len(ns) = 1 THEN ns[1]
             ELSE IF ns[1] >= MaxOf(Tail(ns)) THEN ns[1] ELSE MaxOf(Tail(ns))

(***************************************************************************)
(* find_years_of_experience: re.findall of                                 *)
(*   (\d+)\s*\+\s*years | (\d+)\s+years | (\d+)-year     with re.I         *)
(* and the maximum of the captured numbers.                                *)
(***************************************************************************)
NoMatch == [end |-> 0, val |-> 0]

\* first position >= i whose character is not a digit (Len+1 at the end)
RECURSIVE DigitsEnd(_, _)
DigitsEnd(t, i) == IF i <= Len(t) /\ IsDigit(t[i]) THEN DigitsEnd(t, i + 1) ELSE i

\* first position >= i whose character is not whitespace
RECURSIVE SpacesEnd(_, _)
SpacesEnd(t, i) == IF i <= Len(t) /\ IsSpace(t[i]) THEN SpacesEnd(t, i + 1) ELSE i

\* the literal lit (lower case) at position i, ignoring case
LitAt(t, i, lit) == /\ i + Len(lit) - 1 <= Len(t)
                    /\ Lower(SubSeq(t, i, i + Len(lit) - 1)) = lit

\* One regex match attempt starting exactly at position i.  \d+ is greedy
\* and every alternative continues with a non-digit, so the digits matched
\* are the whole run from i; \s* and \s+ are followed by a non-space.
MatchAt(t, i) ==
    LET j == DigitsEnd(t, i)
        p == SpacesEnd(t, j)
        q == SpacesEnd(t, p + 1)
        n == ToInt(SubSeq(t, i, j - 1))
    IN  IF j = i THEN NoMatch
        ELSE IF p <= Len(t) /\ t[p] = "+" /\ LitAt(t, q, <<"y","e","a","r","s">>)
             THEN [end |-> q + 5, val |-> n]
        ELSE IF p > j /\ LitAt(t, p, <<"y","e","a","r","s">>)
             THEN [end |-> p + 5, val |-> n]
        ELSE IF j <= Len(t) /\ t[j] = "-" /\ LitAt(t, j + 1, <<"y","e","a","r">>)
             THEN [end |-> j + 5, val |-> n]
        ELSE NoMatch

\* re.findall: leftmost non-overlapping matches, scanning from position i
RECURSIVE FindAll(_, _)
FindAll(t, i) ==
    IF i > Len(t) THEN <<>>
    ELSE LET m == MatchAt(t, i)
         IN  IF m = NoMatch THEN FindAll(t, i + 1)
             ELSE <<m.val>> \o FindAll(t, m.end)

find_years_of_experience(text) ==
    LET nums == FindAll(text, 1)
    IN  IF nums # <<>> THEN MaxOf(nums) ELSE 0

(***************************************************************************)
(* find_education                                                          *)
(***************************************************************************)
PhdMarkers == {<<"p","h","d">>, <<"p","h",".","d">>, <<"d","o","c","t","o","r","a","t","e">>}
MasterMarkers == {<<"m","a","s","t","e","r">>, <<"m","s"," ">>, <<"m",".","s","c">>,
                  <<"P","o","s","t","-","g","r","a","d","u","a","t","e">>}
BachelorMarkers == {<<"b","a","c","h","e","l","o","r">>, <<"b",".","s">>, <<"b","s"," ">>,
                    <<"u","n","d","e","r","-","g","r","a","d","u","a","t","e">>, <<"b","e">>}

\* the  "x" in text_l or "y" in text_l ...  test of one category
AnyIn(markers, text_l) == \E m \in markers : Contains(m, text_l)

find_education(text) ==
    LET text_l == Lower(text)
    IN  IF AnyIn(PhdMarkers, text_l) THEN "PhD"
        ELSE IF AnyIn(MasterMarkers, text_l) THEN "Master"
        ELSE IF AnyIn(BachelorMarkers, text_l) THEN "Bachelor"
        ELSE "Not specified"

(***************************************************************************)
(* score_resume                                                            *)
(***************************************************************************)
SkillWeight == 70
YearsWeight == 30
YearsCap == 10
ScoreCap == 100

\* [s.strip().lower() for s in required_skills if s.strip()]
RECURSIVE NormalizeSkillsNoStrip(_)
NormalizeSkillsNoStrip(required_skills) ==
    IF required_skills = <<>> THEN <<>>
    ELSE LET s == Head(required_skills)
         IN  (IF Strip(s) # <<>> THEN <<Lower(s)>> ELSE <<>>)
             \o NormalizeSkillsNoStrip(Tail(required_skills))
RECURSIVE NormalizeSkills(_)
NormalizeSkills(required_skills) ==
    IF required_skills = <<>> THEN <<>>
    ELSE LET s == Strip(Head(required_skills))
         IN  (IF s # <<>> THEN <<Lower(s)>> ELSE <<>>) \o NormalizeSkills(Tail(required_skills))

\* [s for s in skills if s in text_l]
RECURSIVE MatchSkills(_, _)
MatchSkills(skills, text_l) ==
    IF skills = <<>> THEN <<>>
    ELSE (IF Contains(Head(skills), text_l) THEN <<Head(skills)>> ELSE <<>>)
         \o MatchSkills(Tail(skills), text_l)

\* edu_score, in points
EduScoreSwapped(education) ==
    IF education = "PhD" THEN 10
    ELSE IF education = "Master" THEN 4
    ELSE IF education = "Bachelor" THEN 7
    ELSE 0
EduScore(education) ==
    IF education = "PhD" THEN 10
    ELSE IF education = "Master" THEN 7
    ELSE IF education = "Bachelor" THEN 4
    ELSE 0

\* min(years, 10) / 10 * 30, in tenths of a point
YearsScore10(years) == (Min(years, YearsCap) * YearsWeight * 10) \div YearsCap

\* round(x, 1) of the rational num/den tenths: nearest tenth, ties to even.
\* (Agrees with IEEE double arithmetic of the source for every ratio of up
\* to 12 skills.)
Round1(num, den) ==
    LET q == num \div den
        r == num % den
    IN  IF 2 * r > den \/ (2 * r = den /\ q % 2 = 1) THEN q + 1 ELSE q

\* round(min(skills_score + years_score + edu_score, 100), 1), in tenths;
\* m matched of n required skills
TotalNoCap(m, n, years, education) ==
    LET den == IF n > 0 THEN n ELSE 1
        num == (IF n > 0 THEN m * SkillWeight * 10 ELSE 0)
               + den * (YearsScore10(years) + EduScore(education) * 10)
    IN  Round1(num, den)
Total(m, n, years, education) ==
    LET den == IF n > 0 THEN n ELSE 1
        num == (IF n > 0 THEN m * SkillWeight * 10 ELSE 0)
               + den * (YearsScore10(years) + EduScore(education) * 10)
    IN  Round1(Min(num, ScoreCap * 10 * den), den)

score_resume(text, required_skills) ==
    LET text_l == Lower(text)
        skills == NormalizeSkills(required_skills)
        matched_skills == MatchSkills(skills, text_l)
        years == find_years_of_experience(text)
        education == find_education(text)
    IN  [score |-> Total(Len(matched_skills), Len(skills), years, education),
         matched_skills |-> matched_skills,
         years |-> years,
         education |-> education]

(***************************************************************************)
(* Skill-list derivation of submit (lines 166-168):                        *)
(*   words = re.findall(r"[A-Za-z\+#]{2,}", job_description)               *)
(*   skills = [w for w in words if w.lower() not in stop][:10]             *)
(***************************************************************************)
MaxDerived == 10
StopWords == {<<"a","n","d">>, <<"o","r">>, <<"t","h","e">>, <<"w","i","t","h">>, <<"t","o">>,
              <<"f","o","r">>, <<"o","f">>, <<"i","n">>, <<"o","n">>, <<"a">>, <<"a","n">>}

IsWordChar(c) == IsAlpha(c) \/ c \in {"+", "#"}

RECURSIVE WordEnd(_, _)
WordEnd(t, i) == IF i <= Len(t) /\ IsWordChar(t[i]) THEN WordEnd(t, i + 1) ELSE i

\* re.findall(r"[A-Za-z\+#]{2,}", t): the maximal runs of at least 2 word characters
RECURSIVE FindWords(_, _)
FindWords(t, i) ==
    IF i > Len(t) THEN <<>>
    ELSE LET j == WordEnd(t, i)
         IN  IF j - i >= 2 THEN <<SubSeq(t, i, j - 1)>> \o FindWords(t, j)
             ELSE IF j > i THEN FindWords(t, j)
             ELSE FindWords(t, i + 1)

IsStop(w) == Lower(w) \in StopWords

RECURSIVE DropStop(_)
DropStop(words) ==
    IF words = <<>> THEN <<>>
    ELSE (IF IsStop(Head(words)) THEN <<>> ELSE <<Head(words)>>) \o DropStop(Tail(words))

FirstNAll(s, n) == s
\* words[:n]
FirstN(s, n) == SubSeq(s, 1, Min(Len(s), n))

derive_skills(job_description) == FirstN(DropStop(FindWords(job_description, 1)), MaxDerived)

(***************************************************************************)
(* Inputs of the pure functions.                                           *)
(***************************************************************************)
ExampleText == <<"5"," ","y","e","a","r","s"," ","o","f"," ","P","y","t","h","o","n"," ","a","n","d"," ","S","Q","L"," ","e","x","p","e","r","i","e","n","c","e",","," ","P","h","D"," ","i","n"," ","C","S">>
ExampleSkills == << <<"p","y","t","h","o","n">>, <<"s","q","l">>, <<"a","w","s">> >>
ExampleJd == <<"L","o","o","k","i","n","g"," ","f","o","r"," ","a"," ","G","o"," ","d","e","v","e","l","o","p","e","r"," ","w","i","t","h"," ","D","o","c","k","e","r"," ","a","n","d"," ","A","W","S"," ","e","x","p","e","r","i","e","n","c","e">>

TextFragments == {
    <<"P","h","D"," ">>,
    <<"M","a","s","t","e","r"," ">>,
    <<"P","o","s","t","-","g","r","a","d","u","a","t","e"," ">>,
    <<"3","-","y","e","a","r"," ","B",".","S","c"," ">>,
    <<"1","2","+"," ","Y","e","a","r","s"," ">>,
    <<"P","y","t","h","o","n"," ","s","q","l"," ">> }

Texts == {ExampleText} \cup {Concat(fs) : fs \in SeqsUpTo(TextFragments, MaxFrags)}

SkillPool == { <<"P","y","t","h","o","n"," ">>, <<"s","q","l">>, <<"a","w","s">>, <<" "," ">> }

SkillLists == {ExampleSkills} \cup SeqsUpTo(SkillPool, MaxSkills)

JdFragments == { ExampleJd \o <<" ">>,
                 <<"C","+","+"," ","a","n","d"," ","C","#"," ","O","N"," ","a"," ","M","a","c"," ">>,
                 <<"T","h","e",","," ","g","o",";"," ">> }

\* request.form.get("job_description", "").strip()
JobDescriptions == {Strip(Concat(fs)) : fs \in SeqsUpTo(JdFragments, MaxJdFrags)}

(***************************************************************************)
(* The web application: uploads, the upload folder and the resumes table.  *)
(***************************************************************************)
ALLOWED_EXTENSIONS == { <<"p","d","f">>, <<"d","o","c","x">> }

RECURSIVE LastDot(_, _)
LastDot(s, i) == IF i = 0 THEN 0 ELSE IF s[i] = "." THEN i ELSE LastDot(s, i - 1)

\* filename.rsplit(".", 1)[1].lower(), for a filename that holds a "."
ExtOf(filename) == Lower(SubSeq(filename, LastDot(filename, Len(filename)) + 1, Len(filename)))

allowed_file(filename) == "." \in Range(filename) /\ ExtOf(filename) \in ALLOWED_EXTENSIONS

\* str.split(sep) for a one-character separator
RECURSIVE Split(_, _)
Split(s, sep) ==
    IF sep \notin Range(s) THEN <<s>>
    ELSE LET k == CHOOSE i \in 1..Len(s) : s[i] = sep /\ \A j \in 1..(i - 1) : s[j] # sep
         IN  <<SubSeq(s, 1, k - 1)>> \o Split(SubSeq(s, k + 1, Len(s)), sep)

\* [s.strip() for s in parts if s.strip()]
RECURSIVE StripNonEmpty(_)
StripNonEmpty(parts) ==
    IF parts = <<>> THEN <<>>
    ELSE (IF Strip(Head(parts)) # <<>> THEN <<Strip(Head(parts))>> ELSE <<>>)
         \o StripNonEmpty(Tail(parts))

\* skills = [s.strip() for s in skills_raw.split(",") if s.strip()]
ParseSkills(skills_raw) == StripNonEmpty(Split(Strip(skills_raw), ","))

\* werkzeug.utils.secure_filename on ASCII input: whitespace runs and path
\* separators become "_", characters outside [A-Za-z0-9_.-] are dropped,
\* leading and trailing "." and "_" are stripped.
IsSafeChar(c) == IsAlpha(c) \/ IsDigit(c) \/ c \in {"_", ".", "-"}

RECURSIVE SplitWhitespace(_)
SplitWhitespace(s) ==
    LET t == LStrip(s)
    IN  IF t = <<>> THEN <<>>
        ELSE LET k == IF \E i \in 1..Len(t) : IsSpace(t[i])
                      THEN CHOOSE i \in 1..Len(t) : IsSpace(t[i]) /\ \A j \in 1..(i - 1) : ~IsSpace(t[j])
                      ELSE Len(t) + 1
             IN  <<SubSeq(t, 1, k - 1)>> \o SplitWhitespace(SubSeq(t, k, Len(t)))

RECURSIVE StripDotUnderscore(_)
StripDotUnderscore(s) ==
    IF s # <<>> /\ s[1] \in {".", "_"} THEN StripDotUnderscore(Tail(s))
    ELSE IF s # <<>> /\ s[Len(s)] \in {".", "_"} THEN StripDotUnderscore(SubSeq(s, 1, Len(s) - 1))
    ELSE s

secure_filename(name) ==
    LET seps == [i \in 1..Len(name) |-> IF name[i] = "/" THEN " " ELSE name[i]]
        joined == Join(<<"_">>, SplitWhitespace(seps))
    IN  StripDotUnderscore(SelectSeq(joined, IsSafeChar))

\* datetime.utcnow().strftime('%Y%m%d%H%M%S'); the clock counts the seconds
\* of one day, 2026-01-01
TwoDigits(n) == <<DigitChars[(n \div 10) + 1], DigitChars[(n % 10) + 1]>>
Strftime(now) ==
    <<"2","0","2","6","0","1","0","1">>
    \o TwoDigits(now \div 3600) \o TwoDigits((now \div 60) % 60) \o TwoDigits(now % 60)

\* secure_filename(f"{datetime.utcnow().strftime('%Y%m%d%H%M%S')}_{file.filename}")
StoredName(now, upload_name) == secure_filename(Strftime(now) \o <<"_">> \o upload_name)

\* A document is what the parsers (pdfminer, docx2txt) see: either they
\* raise on it (valid = FALSE) or they return its text, which may be empty.
DocA == [valid |-> TRUE, text |-> <<"1","2","+"," ","Y","e","a","r","s"," ","P","y","t","h","o","n"," ","G","o"," ","P","h","D">>]
DocB == [valid |-> TRUE, text |-> <<"G","o"," ","M","a","s","t","e","r">>]
DocEmpty == [valid |-> TRUE, text |-> <<>>]
DocCorrupt == [valid |-> FALSE, text |-> <<>>]

\* extract_text: the parser's text, "" when the parser raises or the
\* extension is neither pdf nor docx
extract_text(doc, ext) ==
    IF ext \in ALLOWED_EXTENSIONS
    THEN (IF doc.valid THEN doc.text ELSE <<>>)
    ELSE <<>>

\* if not text:
TextMissingNever(text) == FALSE
TextMissing(text) == text = <<>>

\* request.files.get("resume")
NoFile == [present |-> FALSE, filename |-> <<>>, doc |-> DocCorrupt]
BadUploads == {
    NoFile,
    [present |-> TRUE, filename |-> <<>>, doc |-> DocA],
    [present |-> TRUE, filename |-> <<"n","o","t","e","s",".","t","x","t">>, doc |-> DocA],
    [present |-> TRUE, filename |-> <<"m","y"," ","c","v",".","P","D","F">>, doc |-> DocCorrupt],
    [present |-> TRUE, filename |-> <<"c","v",".","d","o","c","x">>, doc |-> DocEmpty] }

\* request.form: name, email, job_description, skills
FormAnn == [name |-> <<"A","n","n"," ">>, email |-> <<"a","@","x",".","i","o">>,
            job_description |-> <<>>, skills |-> <<"P","y","t","h","o","n",","," ","G","o",",">>]
FormBob == [name |-> <<"B","o","b">>, email |-> <<>>,
            job_description |-> <<" ","T","h","e"," ","G","o"," ","a","n","d"," ","P","y","t","h","o","n"," ">>,
            skills |-> <<" ",","," ">>]

\* the POST /submit requests a client sends
Posts == {[form |-> FormAnn, upload |-> [present |-> TRUE, filename |-> <<"c","v",".","p","d","f">>, doc |-> DocA]],
          [form |-> FormBob, upload |-> [present |-> TRUE, filename |-> <<"c","v",".","p","d","f">>, doc |-> DocB]]}
         \cup {[form |-> FormAnn, upload |-> u] : u \in BadUploads}

ReqIds == 1..NumReq

NoResult == [score |-> 0, matched_skills |-> <<>>, years |-> 0, education |-> "none"]
NoResponse == [kind |-> "none"]
NoRow == [id |-> 0]

\* flash(message); return redirect(url_for("index"))
Redirect(message) == [kind |-> "redirect", flash |-> message]

\* render_template("result.html", ...)
ResultView(name, email, result, filename) ==
    [kind |-> "result", name |-> name, email |-> email, score |-> result.score,
     matched_skills |-> result.matched_skills, years |-> result.years,
     education |-> result.education, filename |-> filename]

\* the parameter tuple of the INSERT statement
MakeRowUploadName(id, name, email, filename, upload_name, result, job_description, now) ==
    [id |-> id, name |-> name, email |-> email, filename |-> upload_name,
     score |-> result.score, matches |-> Join(<<",">>, result.matched_skills),
     years_experience |-> result.years, education |-> result.education,
     job_description |-> job_description, created_at |-> now]
MakeRow(id, name, email, filename, upload_name, result, job_description, now) ==
    [id |-> id, name |-> name, email |-> email, filename |-> filename,
     score |-> result.score, matches |-> Join(<<",">>, result.matched_skills),
     years_experience |-> result.years, education |-> result.education,
     job_description |-> job_description, created_at |-> now]

\* SQLite lets one connection at a time hold the write lock
LockFreeAlways(lock) == TRUE
LockFree(lock) == lock = 0

\* the committed INSERT: one more row at the end of the table
InsertRowReplacing(rows, row) == IF rows = <<>> THEN <<row>> ELSE [rows EXCEPT ![Len(rows)] = row]
InsertRow(rows, row) == Append(rows, row)

\* SELECT * FROM resumes ORDER BY created_at DESC: every order of the rows
\* that is descending in created_at (SQL leaves the order of ties open)
Listings(rows) ==
    {l \in [1..Len(rows) -> Range(rows)] :
        /\ \A row \in Range(rows) :
              Cardinality({i \in 1..Len(rows) : l[i] = row})
                  = Cardinality({i \in 1..Len(rows) : rows[i] = row})
        /\ \A i \in 1..(Len(rows) - 1) : l[i].created_at >= l[i + 1].created_at}

\* send_from_directory(UPLOAD_FOLDER, filename): the stored file, or 404
uploaded_file(files, filename) ==
    IF filename \in DOMAIN files THEN [kind |-> "file", doc |-> files[filename]]
    ELSE [kind |-> "not_found"]

VARIABLES
    clock,      \* seconds of UTC wall-clock time
    fs,         \* the upload folder: stored filename -> document
    records,    \* the committed rows of table resumes, in insertion order
    lastId,     \* sqlite_sequence: the largest id AUTOINCREMENT has handed out
    dbLock,     \* the request whose connection holds the write lock, or 0
    req,        \* per POST /submit request: its position and its locals
    call,       \* a direct call of one of the pure functions
    ret         \* and what it returned

vars == <<clock, fs, records, lastId, dbLock, req, call, ret>>
appVars == <<clock, fs, records, lastId, dbLock, req>>

Pending == [kind |-> "pending"]

NewReq == [pc |-> "new", form |-> [name |-> <<>>, email |-> <<>>, job_description |-> <<>>, skills |-> <<>>],
           upload |-> NoFile, filename |-> <<>>, text |-> <<>>, extracted |-> FALSE,
           result |-> NoResult, row |-> NoRow, inserts |-> 0, response |-> NoResponse]

AppInit ==
    /\ clock = 0
    /\ fs = <<>>
    /\ records = <<>>
    /\ lastId = 0
    /\ dbLock = 0
    /\ req = [r \in ReqIds |-> NewReq]

Init == AppInit /\ call = [op |-> "none"] /\ ret = Pending

\* time passes
Tick ==
    /\ clock < MaxClock
    /\ clock' = clock + 1
    /\ UNCHANGED <<fs, records, lastId, dbLock, req, call, ret>>

\* submit, lines 137-154: read the form, validate the upload, name the
\* file after the current second and save it (file.save creates the file
\* or overwrites the one of that name)
SubmitUpload(r) ==
    /\ req[r].pc = "new"
    /\ \E post \in Posts :
          LET upload == post.upload
              f == [name |-> Strip(post.form.name), email |-> Strip(post.form.email),
                    job_description |-> Strip(post.form.job_description),
                    skills |-> ParseSkills(post.form.skills)]
              base == [req[r] EXCEPT !.form = f, !.upload = upload]
              filename == StoredName(clock, upload.filename)
          IN  IF ~upload.present \/ upload.filename = <<>>
              THEN /\ req' = [req EXCEPT ![r] = [base EXCEPT
                                 !.pc = "rejected",
                                 !.response = Redirect("Please attach a resume (PDF or DOCX).")]]
                   /\ fs' = fs
              ELSE IF ~allowed_file(upload.filename)
              THEN /\ req' = [req EXCEPT ![r] = [base EXCEPT
                                 !.pc = "rejected",
                                 !.response = Redirect("Unsupported file type. Allowed: pdf, docx")]]
                   /\ fs' = fs
              ELSE /\ req' = [req EXCEPT ![r] = [base EXCEPT !.pc = "saved", !.filename = filename]]
                   /\ fs' = [n \in DOMAIN fs \cup {filename} |->
                                IF n = filename THEN upload.doc ELSE fs[n]]
    /\ UNCHANGED <<clock, records, lastId, dbLock, call, ret>>

\* submit, lines 156-170: extract the text of the file at filepath, reject
\* an empty text, derive the skills when none were given, score
SubmitExtract(r) ==
    /\ req[r].pc = "saved"
    /\ LET text == extract_text(fs[req[r].filename], ExtOf(req[r].filename))
           skills == IF req[r].form.skills = <<>>
                     THEN derive_skills(req[r].form.job_description)
                     ELSE req[r].form.skills
           base == [req[r] EXCEPT !.text = text, !.extracted = TRUE]
       IN  req' = [req EXCEPT ![r] =
               IF TextMissing(text)
               THEN [base EXCEPT !.pc = "rejected",
                                 !.response = Redirect("Could not extract text from the resume. Make sure the file is valid.")]
               ELSE [base EXCEPT !.pc = "scored", !.result = score_resume(text, skills)]]
    /\ UNCHANGED <<clock, fs, records, lastId, dbLock, call, ret>>

\* submit, lines 173-187: get_db() opens this request's own connection;
\* db.execute(INSERT ...) takes the write lock and assigns the next id
DbExecute(r) ==
    /\ req[r].pc = "scored"
    /\ LockFree(dbLock)
    /\ dbLock' = r
    /\ req' = [req EXCEPT ![r].pc = "executed",
                          ![r].row = MakeRow(lastId + 1, req[r].form.name, req[r].form.email,
                                             req[r].filename, req[r].upload.filename, req[r].result,
                                             req[r].form.job_description, clock)]
    /\ UNCHANGED <<clock, fs, records, lastId, call, ret>>

\* submit, lines 188-199: db.commit() makes the row durable and releases
\* the lock; the result page is rendered
DbCommit(r) ==
    /\ req[r].pc = "executed"
    /\ records' = InsertRow(records, req[r].row)
    /\ lastId' = req[r].row.id
    /\ dbLock' = 0
    /\ req' = [req EXCEPT ![r].pc = "done",
                          ![r].inserts = req[r].inserts + 1,
                          ![r].response = ResultView(req[r].form.name, req[r].form.email,
                                                     req[r].result, req[r].filename)]
    /\ UNCHANGED <<clock, fs, call, ret>>

\* GET /: the form; reads and writes no state
index == UNCHANGED vars

\* GET /uploads/<filename>: a download; reads the upload folder
GetUpload == \E n \in DOMAIN fs : uploaded_file(fs, n).kind = "file" /\ UNCHANGED vars

\* GET /admin: a listing; reads the table
admin == Listings(records) # {} /\ UNCHANGED vars

Next ==
    \/ Tick
    \/ \E r \in ReqIds : SubmitUpload(r)
    \/ \E r \in ReqIds : SubmitExtract(r)
    \/ \E r \in ReqIds : DbExecute(r)
    \/ \E r \in ReqIds : DbCommit(r)
    \/ index
    \/ GetUpload
    \/ admin

Spec == Init /\ [][Next]_vars

(***************************************************************************)
(* Direct calls of the pure functions.                                     *)
(***************************************************************************)
FnInit ==
    /\ AppInit
    /\ call \in {[op |-> "score_resume", text |-> t, skills |-> s] : t \in Texts, s \in SkillLists}
                \cup {[op |-> "find_education", text |-> t] : t \in Texts}
                \cup {[op |-> "find_years", text |-> t] : t \in Texts}
                \cup {[op |-> "derive_skills", jd |-> j] : j \in JobDescriptions}
    /\ ret = Pending

CallScoreResume ==
    /\ call.op = "score_resume" /\ ret = Pending
    /\ ret' = [kind |-> "score", result |-> score_resume(call.text, call.skills)]
    /\ UNCHANGED <<call, appVars>>

CallFindEducation ==
    /\ call.op = "find_education" /\ ret = Pending
    /\ ret' = [kind |-> "education", education |-> find_education(call.text)]
    /\ UNCHANGED <<call, appVars>>

CallFindYears ==
    /\ call.op = "find_years" /\ ret = Pending
    /\ ret' = [kind |-> "years", years |-> find_years_of_experience(call.text)]
    /\ UNCHANGED <<call, appVars>>

CallDeriveSkills ==
    /\ call.op = "derive_skills" /\ ret = Pending
    /\ ret' = [kind |-> "skills", skills |-> derive_skills(call.jd)]
    /\ UNCHANGED <<call, appVars>>

FnNext == CallScoreResume \/ CallFindEducation \/ CallFindYears \/ CallDeriveSkills

SpecFn == FnInit /\ [][FnNext]_vars

(***************************************************************************)
(* Properties of the pure functions, checked under SpecFn.                 *)
(***************************************************************************)
Scored == ret.kind = "score"

\* the entries of the required list that are not blank
RequiredCount == Cardinality({i \in 1..Len(call.skills) : Strip(call.skills[i]) # <<>>})

\* C1: for every text and every list of required skills, blank and duplicate
\* entries included, the score score_resume returns lies between 0 and 100.
C1_ScoreInRange == Scored => ret.result.score >= 0 /\ ret.result.score <= 100 * 10

\* C1 witness: a call whose three parts add up to more than 100 points
C1_Witness ==
    /\ Scored
    /\ RequiredCount > 0 /\ Len(ret.result.matched_skills) = RequiredCount
    /\ ret.result.years >= 10
    /\ ret.result.education # "Not specified"
    /\ \E i \in 1..Len(call.skills) : Strip(call.skills[i]) = <<>>

\* C5 as stated: every element of matched_skills is an element of the
\* required skill list that was passed in.
C5_Original ==
    Scored => \A i \in 1..Len(ret.result.matched_skills) :
                 ret.result.matched_skills[i] \in Range(call.skills)

\* C5 amended: every element of matched_skills is the trimmed, lower-cased
\* form of a non-blank element of the required skill list that was passed in.
C5_MatchedAreNormalisedRequired ==
    Scored => \A i \in 1..Len(ret.result.matched_skills) :
                 \E j \in 1..Len(call.skills) :
                    /\ Strip(call.skills[j]) # <<>>
                    /\ ret.result.matched_skills[i] = Lower(Strip(call.skills[j]))

\* C5 witness: a matched skill that is not literally in the list passed in
C5_Witness ==
    /\ Scored
    /\ \E i \in 1..Len(ret.result.matched_skills) :
          ret.result.matched_skills[i] \notin Range(call.skills)

\* C6: the score is min(skills_score + years_score + education_score, 100)
\* rounded to one decimal, with skills_score = matched / required x 70 (0 for
\* no required skill), years_score = min(years, 10) / 10 x 30, which never
\* decreases and stays at 30 from 10 years on, and education_score 10, 7, 4
\* or 0; the example text scores 71.7 with matched [python, sql], 5 years, PhD.
C6_ScoreFormula ==
    /\ Scored =>
         LET r == ret.result
             n == RequiredCount
             m == Len(r.matched_skills)
             den == IF n > 0 THEN n ELSE 1
             capped == IF r.years < 10 THEN r.years ELSE 10
             edu == CASE r.education = "PhD" -> 10
                      [] r.education = "Master" -> 7
                      [] r.education = "Bachelor" -> 4
                      [] r.education = "Not specified" -> 0
             \* ten times the sum of the three parts, times den
             sum == (IF n > 0 THEN 700 * m ELSE 0) + den * (30 * capped + 10 * edu)
             exact == IF sum <= 1000 * den THEN sum ELSE 1000 * den
             diff == r.score * den - exact
         IN  \* r.score is a tenth nearest to the exact value
             /\ 2 * diff <= den /\ 2 * (0 - diff) <= den
             /\ (call.text = ExampleText /\ call.skills = ExampleSkills) =>
                    r = [score |-> 717,
                         matched_skills |-> << <<"p","y","t","h","o","n">>, <<"s","q","l">> >>,
                         years |-> 5, education |-> "PhD"]
    /\ \A y \in 0..(2 * YearsCap) :
          /\ YearsScore10(y) <= YearsScore10(y + 1)
          /\ YearsScore10(y) = 30 * (IF y < 10 THEN y ELSE 10)

\* C6 witness: the example call has returned 71.7
C6_Witness ==
    /\ Scored /\ call.text = ExampleText /\ call.skills = ExampleSkills
    /\ ret.result.score = 717

\* C7: find_education reports the first of PhD, Master, Bachelor that has a
\* marker in the text (markers are looked for in the lower-cased text, so
\* case does not matter), and "Not specified" when none has one.
C7_EducationPriority ==
    ret.kind = "education" =>
        LET text_l == Lower(call.text)
            has(markers) == \E m \in markers : Contains(Lower(m), text_l)
        IN  /\ has(PhdMarkers) => ret.education = "PhD"
            /\ (~has(PhdMarkers) /\ has(MasterMarkers)) => ret.education = "Master"
            /\ (~has(PhdMarkers) /\ ~has(MasterMarkers) /\ has(BachelorMarkers))
                  => ret.education = "Bachelor"
            /\ (~has(PhdMarkers) /\ ~has(MasterMarkers) /\ ~has(BachelorMarkers))
                  => ret.education = "Not specified"

\* the word w is a whole token of t at position i
TokenAt(t, i, w) ==
    /\ i + Len(w) - 1 <= Len(t)
    /\ SubSeq(t, i, i + Len(w) - 1) = w
    /\ (i = 1 \/ ~IsWordChar(t[i - 1]))
    /\ (i + Len(w) > Len(t) \/ ~IsWordChar(t[i + Len(w)]))

\* the words ws are tokens of t from position i on, in this order
RECURSIVE TokensInOrder(_, _, _)
TokensInOrder(ws, t, i) ==
    IF ws = <<>> THEN TRUE
    ELSE /\ \E k \in i..Len(t) : TokenAt(t, k, Head(ws))
         /\ LET k == CHOOSE k \in i..Len(t) :
                        TokenAt(t, k, Head(ws)) /\ \A j \in i..(k - 1) : ~TokenAt(t, j, Head(ws))
            IN  TokensInOrder(Tail(ws), t, k + Len(Head(ws)))

DerivedShape ==
    /\ Len(ret.skills) <= 10
    /\ TokensInOrder(ret.skills, call.jd, 1)
    /\ \A i \in 1..Len(ret.skills) :
          /\ Len(ret.skills[i]) >= 2
          /\ Lower(ret.skills[i]) \notin
                {<<"a","n","d">>, <<"o","r">>, <<"t","h","e">>, <<"w","i","t","h">>, <<"t","o">>,
                 <<"f","o","r">>, <<"o","f">>, <<"i","n">>, <<"o","n">>, <<"a">>, <<"a","n">>}

\* C8 as stated: at most 10 tokens of the job description, in order, none a
\* stopword; for the example every derived skill is one of Looking,
\* developer, Docker, AWS, experience.
C8_Original ==
    ret.kind = "skills" =>
        /\ DerivedShape
        /\ call.jd = ExampleJd =>
              \A i \in 1..Len(ret.skills) :
                 ret.skills[i] \in {<<"L","o","o","k","i","n","g">>, <<"d","e","v","e","l","o","p","e","r">>,
                                    <<"D","o","c","k","e","r">>, <<"A","W","S">>,
                                    <<"e","x","p","e","r","i","e","n","c","e">>}

\* C8 amended: at most 10 tokens of the job description, in order, none a
\* stopword; for the example every derived skill is one of Looking, Go,
\* developer, Docker, AWS, experience.
C8_DerivedSkills ==
    ret.kind = "skills" =>
        /\ DerivedShape
        /\ call.jd = ExampleJd =>
              \A i \in 1..Len(ret.skills) :
                 ret.skills[i] \in {<<"L","o","o","k","i","n","g">>, <<"G","o">>,
                                    <<"d","e","v","e","l","o","p","e","r">>,
                                    <<"D","o","c","k","e","r">>, <<"A","W","S">>,
                                    <<"e","x","p","e","r","i","e","n","c","e">>}

\* C8 witness: the example job description has yielded Go
C8_Witness ==
    /\ ret.kind = "skills" /\ call.jd = ExampleJd
    /\ <<"G","o">> \in Range(ret.skills)

(***************************************************************************)
(* Properties of the application, checked under Spec.                      *)
(***************************************************************************)
Finished(r) == req[r].pc \in {"done", "rejected"}

\* one of the three reasons to reject applies to request r
MustReject(r) ==
    \/ ~req[r].upload.present
    \/ req[r].upload.filename = <<>>
    \/ ExtOf(req[r].upload.filename) \notin {<<"p","d","f">>, <<"d","o","c","x">>}
    \/ req[r].extracted /\ req[r].text = <<>>

\* C2: a POST /submit rejected for a missing file, a disallowed extension or
\* an empty extracted text (an extractor failure included) ends with a
\* redirect carrying a message and has inserted no record.
C2_RejectedInsertsNothing ==
    \A r \in ReqIds :
        (Finished(r) /\ MustReject(r)) =>
            /\ req[r].response.kind = "redirect"
            /\ req[r].response.flash # ""
            /\ req[r].inserts = 0
            /\ req[r].row = NoRow

\* C2 witness: a request was rejected because the extractor raised, while
\* the store holds another request's record
C2_Witness ==
    /\ Len(records) >= 1
    /\ \E r \in ReqIds :
          /\ req[r].pc = "rejected" /\ req[r].extracted
          /\ ~req[r].upload.doc.valid

\* the committed rows a request's INSERT produced
RowsOf(r) == {i \in 1..Len(records) : records[i].id = req[r].row.id}

\* C3: a successful POST /submit inserts exactly one record, only after its
\* file was saved, its text extracted and scored, and the record's score,
\* matched skills, years, education and filename are those of the response,
\* which every later listing shows.
C3_OneRecordAsReturned ==
    \A r \in ReqIds :
        /\ req[r].pc \in {"executed", "done"} =>
              /\ req[r].filename \in DOMAIN fs
              /\ req[r].extracted /\ req[r].text # <<>>
              /\ req[r].result # NoResult
        /\ req[r].pc # "done" => req[r].inserts = 0
        /\ req[r].pc = "done" =>
              /\ req[r].inserts = 1
              /\ Cardinality(RowsOf(r)) = 1
              /\ \A i \in RowsOf(r) :
                    /\ records[i].score = req[r].response.score
                    /\ records[i].matches = Join(<<",">>, req[r].response.matched_skills)
                    /\ records[i].years_experience = req[r].response.years
                    /\ records[i].education = req[r].response.education
                    /\ records[i].filename = req[r].response.filename
                    /\ \A l \in Listings(records) : \E k \in 1..Len(l) : l[k] = records[i]

\* C3 witness: two successful submissions, one with two matched skills
C3_Witness ==
    /\ Len(records) = 2
    /\ \E r \in ReqIds : req[r].pc = "done" /\ Len(req[r].response.matched_skills) = 2

\* C4: the record store is append-only: whatever request is served, every
\* record that existed is still there unchanged and the count never drops.
C4_AppendOnly ==
    [][/\ Len(records') >= Len(records)
       /\ \A i \in 1..Len(records) : records'[i] = records[i]]_vars

\* C4 witness: a record is stored and another POST /submit, which had saved
\* its upload, was rejected
C4_Witness ==
    /\ Len(records) >= 1
    /\ \E r \in ReqIds : req[r].pc = "rejected" /\ req[r].extracted

Bijections(S, T) == {f \in [S -> T] : \A t \in T : \E x \in S : f[x] = t /\ \A y \in S : f[y] = t => y = x}

C10_StoredFileIsOwn ==
    /\ \A r1, r2 \in ReqIds :
          (r1 # r2 /\ req[r1].pc = "done" /\ req[r2].pc = "done")
              => req[r1].row.filename # req[r2].row.filename
    /\ \A r \in ReqIds :
          req[r].pc = "done" =>
              LET got == uploaded_file(fs, req[r].row.filename)
              IN  /\ got.kind = "file"
                  /\ extract_text(got.doc, ExtOf(req[r].row.filename)) = req[r].text

====
